---- MODULE Spec2Model ----
(***************************************************************************)
(* Model of the transcript-saver MCP server                                *)
(* (src/src/transcript_saver_mcp/server.py).                               *)
(*                                                                         *)
(* Text is modelled as a sequence of characters, each character a          *)
(* one-character string; a character outside ASCII is named by its code    *)
(* point ("U+00E9"), and so is the backquote ("U+0060").  The archive is   *)
(* a directory tree below the Archive Root: a path is the sequence of its  *)
(* names below the root, <<>> being                                        *)
(* the root itself.  The host is POSIX ("/" separates names, names are     *)
(* case-sensitive, os.linesep is "\n").                                    *)
(***************************************************************************)
EXTENDS Integers, Sequences, FiniteSets, TLC

\* ------------------------------------------------------------------ bounds
\* Number of file-writing tool calls explored in one behaviour.
MaxWrites == 2
\* Number of seconds the clock advances in one behaviour.
MaxTicks == 1
\* Every title of at most this many characters is tried on generate_filename.
MaxTitleLen == 2
\* Longest session log rendered, in lines.
MaxLines == 2
\* Latest modification time of a session log.
MaxMtime == 3
\* Every working directory of at most this many characters is tried.
MaxCwdLen == 3

\* ------------------------------------------------- characters and strings
UpperChars ==
    {"A", "B", "C", "D", "E", "F", "G", "H", "I", "J", "K", "L", "M", "N", "O",
     "P", "Q", "R", "S", "T", "U", "V", "W", "X", "Y", "Z"}
LowerChars ==
    {"a", "b", "c", "d", "e", "f", "g", "h", "i", "j", "k", "l", "m", "n", "o",
     "p", "q", "r", "s", "t", "u", "v", "w", "x", "y", "z"}
DigitChars == <<"0", "1", "2", "3", "4", "5", "6", "7", "8", "9">>
\* Letters and digits outside ASCII for which str.isalnum() is true:
\* e-acute, superscript two, CJK "zhong".
NonAsciiAlnum == {"U+00E9", "U+00B2", "U+4E2D"}
\* str.isalnum() of one character
IsAlnum(c) ==
    \/ c \in UpperChars
    \/ c \in LowerChars
    \/ c \in {DigitChars[i] : i \in DOMAIN DigitChars}
    \/ c \in NonAsciiAlnum
\* the characters str.strip() removes
Whitespace == {" ", "\t", "\n", "\r", "\f"}
\* The characters of names in code point order (string comparison).
CharOrder ==
    <<" ", "*", "-", ".", "/", "0", "1", "2", "3", "4", "5", "6", "7", "8", "9",
      "?", "A", "B", "C", "D", "E", "F", "G", "H", "I", "J", "K", "L", "M", "N",
      "O", "P", "Q", "R", "S", "T", "U", "V", "W", "X", "Y", "Z", "_", "a", "b",
      "c", "d", "e", "f", "g", "h", "i", "j", "k", "l", "m", "n", "o", "p", "q",
      "r", "s", "t", "u", "v", "w", "x", "y", "z", "U+00B2", "U+00E9", "U+4E2D">>
Code ==
    [c \in {CharOrder[i] : i \in DOMAIN CharOrder} |->
        CHOOSE i \in DOMAIN CharOrder : CharOrder[i] = c]

Min(a, b) == IF a < b THEN a ELSE b

\* s < t for str (lexicographic by code point)
StrLess(s, t) ==
    LET differ == {i \in 1..Min(Len(s), Len(t)) : s[i] # t[i]}
    IN  IF differ = {} THEN Len(s) < Len(t)
        ELSE LET i == CHOOSE k \in differ : \A j \in differ : k <= j
             IN  Code[s[i]] < Code[t[i]]

\* s[:n]
Take(s, n) == SubSeq(s, 1, Min(n, Len(s)))
\* s[n:] (n counted from 0)
Drop(s, n) == SubSeq(s, n + 1, Len(s))

\* str.strip()
Strip(s) ==
    LET inner == {i \in DOMAIN s : s[i] \notin Whitespace}
    IN  IF inner = {} THEN <<>>
        ELSE LET lo == CHOOSE i \in inner : \A j \in inner : i <= j
                 hi == CHOOSE i \in inner : \A j \in inner : j <= i
             IN  SubSeq(s, lo, hi)

RECURSIVE FlattenRange(_, _, _)
\* the concatenation of ss[lo..hi], by halves
FlattenRange(ss, lo, hi) ==
    IF lo > hi THEN <<>>
    ELSE IF lo = hi THEN ss[lo]
    ELSE LET mid == (lo + hi) \div 2
         IN  FlattenRange(ss, lo, mid) \o FlattenRange(ss, mid + 1, hi)
\* the concatenation of a sequence of sequences
FlattenSeqs(ss) == FlattenRange(ss, 1, Len(ss))
\* s.replace(old, new) for a one-character old
ReplaceChar(s, old, new) ==
    FlattenSeqs([i \in DOMAIN s |-> IF s[i] = old THEN new ELSE <<s[i]>>])
\* sep.join(parts)
Join(sep, parts) ==
    FlattenSeqs([i \in DOMAIN parts |-> IF i = 1 THEN parts[i] ELSE sep \o parts[i]])

RECURSIVE Decimal(_)
\* str(n) for n >= 0
Decimal(n) ==
    IF n < 10 THEN <<DigitChars[n + 1]>>
    ELSE Decimal(n \div 10) \o <<DigitChars[(n % 10) + 1]>>
RECURSIVE ZeroPad(_, _)
\* f"{n:0wd}": at least w digits, zero-filled on the left
ZeroPad(s, w) == IF Len(s) >= w THEN s ELSE ZeroPad(<<"0">> \o s, w)
Pad2(n) == ZeroPad(Decimal(n), 2)
Pad4(n) == ZeroPad(Decimal(n), 4)

\* ---------------------------------------------------------- text literals
L_Dashes ==
    <<"-", "-", "-">>
L_Date ==
    <<"d", "a", "t", "e", ":", " ">>
L_TitleOpen ==
    <<"t", "i", "t", "l", "e", ":", " ", "\"">>
L_Quote ==
    <<"\"">>
L_TagsOpen ==
    <<"t", "a", "g", "s", ":", " ", "[">>
L_CommaSpace ==
    <<",", " ">>
L_TagsClose ==
    <<"]">>
L_SummaryOpen ==
    <<"s", "u", "m", "m", "a", "r", "y", ":", " ", "\"">>
L_Hash ==
    <<"#", " ">>
L_SavedOpen ==
    <<"*", "S", "a", "v", "e", "d", ":", " ">>
L_Star ==
    <<"*">>
L_TranscriptDash ==
    <<"#", " ", "T", "r", "a", "n", "s", "c", "r", "i", "p", "t", " ", "-", " ">>
L_SummaryHeading ==
    <<"#", "#", " ", "S", "u", "m", "m", "a", "r", "y">>
L_TranscriptHeading ==
    <<"#", "#", " ", "T", "r", "a", "n", "s", "c", "r", "i", "p", "t">>
L_Md ==
    <<".", "m", "d">>
L_Session ==
    <<"S", "e", "s", "s", "i", "o", "n", " ">>
L_SessionFileOpen ==
    <<"s", "e", "s", "s", "i", "o", "n", "_", "f", "i", "l", "e", ":", " ", "\"">>
L_ProjectOpen ==
    <<"p", "r", "o", "j", "e", "c", "t", ":", " ", "\"">>
L_SourceOpen ==
    <<"*", "S", "o", "u", "r", "c", "e", ":", " ">>
L_RawJsonl ==
    <<"_", "r", "a", "w", ".", "j", "s", "o", "n", "l">>
L_Jsonl ==
    <<".", "j", "s", "o", "n", "l">>
L_Human ==
    <<"#", "#", " ", "H", "u", "m", "a", "n", "\n", "\n">>
L_ToolResultOpen ==
    <<"#", "#", "#", " ", "T", "o", "o", "l", " ", "R", "e", "s", "u", "l", "t", "\n", "\n", "U+0060", "U+0060", "U+0060", "\n">>
L_FenceClose ==
    <<"\n", "U+0060", "U+0060", "U+0060", "\n">>
L_Claude ==
    <<"#", "#", " ", "C", "l", "a", "u", "d", "e", "\n", "\n">>
L_Thinking ==
    <<"#", "#", " ", "C", "l", "a", "u", "d", "e", " ", "(", "T", "h", "i", "n", "k", "i", "n", "g", ")", "\n", "\n", ">", " ">>
L_ToolUse ==
    <<"#", "#", "#", " ", "T", "o", "o", "l", " ", "U", "s", "e", ":", " ">>
L_JsonFenceOpen ==
    <<"\n", "\n", "U+0060", "U+0060", "U+0060", "j", "s", "o", "n", "\n">>
L_SystemOpen ==
    <<"#", "#", " ", "S", "y", "s", "t", "e", "m", " ", "(">>
L_SystemClose ==
    <<")", "\n", "\n">>
L_Unknown ==
    <<"u", "n", "k", "n", "o", "w", "n">>
L_EmptyObject ==
    <<"{", "}">>

\* --------------------------------------------------------- argument values
\* A value of the loosely typed argument map: a key may be missing, or hold
\* null, a string, an integer, a boolean or a list of strings.
Missing == [t |-> "missing", s |-> <<>>, n |-> 0, l |-> <<>>]
NoneV == [t |-> "none", s |-> <<>>, n |-> 0, l |-> <<>>]
StrV(x) == [t |-> "str", s |-> x, n |-> 0, l |-> <<>>]
IntV(x) == [t |-> "int", s |-> <<>>, n |-> x, l |-> <<>>]
BoolV(b) == [t |-> "bool", s |-> <<>>, n |-> IF b THEN 1 ELSE 0, l |-> <<>>]
ListV(x) == [t |-> "list", s |-> <<>>, n |-> 0, l |-> x]
\* arguments.get(key): a missing key reads as None
Get(v) == IF v.t = "missing" THEN NoneV ELSE v
\* arguments.get(key, default)
GetOr(v, default) == IF v.t = "missing" THEN default ELSE v
\* truth value of a Python object
Truthy(v) ==
    CASE v.t = "str" -> v.s # <<>>
      [] v.t = "int" -> v.n # 0
      [] v.t = "bool" -> v.n # 0
      [] v.t = "list" -> v.l # <<>>
      [] OTHER -> FALSE

\* ----------------------------------------------------------------- clock
\* datetime.now(), to the second
IsLeap(y) == (y % 4 = 0 /\ y % 100 # 0) \/ y % 400 = 0
DaysIn(y, m) ==
    IF m = 2 THEN (IF IsLeap(y) THEN 29 ELSE 28)
    ELSE IF m \in {4, 6, 9, 11} THEN 30 ELSE 31
\* the datetime one second after dt
NextSecond(dt) ==
    IF dt.second < 59 THEN [dt EXCEPT !.second = @ + 1]
    ELSE IF dt.minute < 59 THEN [dt EXCEPT !.second = 0, !.minute = @ + 1]
    ELSE IF dt.hour < 23 THEN [dt EXCEPT !.second = 0, !.minute = 0, !.hour = @ + 1]
    ELSE IF dt.day < DaysIn(dt.year, dt.month)
         THEN [dt EXCEPT !.second = 0, !.minute = 0, !.hour = 0, !.day = @ + 1]
    ELSE IF dt.month < 12
         THEN [dt EXCEPT !.second = 0, !.minute = 0, !.hour = 0, !.day = 1,
                         !.month = @ + 1]
    ELSE [dt EXCEPT !.second = 0, !.minute = 0, !.hour = 0, !.day = 1,
                    !.month = 1, !.year = @ + 1]
\* dt.strftime("%Y-%m-%d_%H-%M-%S")
StrfFile(dt) ==
    Pad4(dt.year) \o <<"-">> \o Pad2(dt.month) \o <<"-">> \o Pad2(dt.day) \o <<"_">>
    \o Pad2(dt.hour) \o <<"-">> \o Pad2(dt.minute) \o <<"-">> \o Pad2(dt.second)
\* dt.strftime("%Y-%m-%d %H:%M:%S")
StrfHuman(dt) ==
    Pad4(dt.year) \o <<"-">> \o Pad2(dt.month) \o <<"-">> \o Pad2(dt.day) \o <<" ">>
    \o Pad2(dt.hour) \o <<":">> \o Pad2(dt.minute) \o <<":">> \o Pad2(dt.second)
\* dt.isoformat() (microsecond = 0)
IsoFormat(dt) ==
    Pad4(dt.year) \o <<"-">> \o Pad2(dt.month) \o <<"-">> \o Pad2(dt.day) \o <<"T">>
    \o Pad2(dt.hour) \o <<":">> \o Pad2(dt.minute) \o <<":">> \o Pad2(dt.second)

\* --------------------------------------------------------- path resolver
TitleLimit == 50
\* the sanitized title without the [:50]
MutSafeTitle_NoTruncate(title) ==
    LET kept == SelectSeq(title, LAMBDA c : IsAlnum(c) \/ c \in {"-", "_", " "})
    IN  ReplaceChar(Strip(kept), " ", <<"-">>)
\* the sanitized title of generate_filename
SafeTitle(title) ==
    LET kept == SelectSeq(title, LAMBDA c : IsAlnum(c) \/ c \in {"-", "_", " "})
    IN  Take(ReplaceChar(Strip(kept), " ", <<"-">>), TitleLimit)
\* generate_filename(dt, title); title is an argument value
generate_filename(dt, title) ==
    IF Truthy(title)
    THEN StrfFile(dt) \o <<"_">> \o SafeTitle(title.s) \o L_Md
    ELSE StrfFile(dt) \o L_Md
\* the directory ensure_month_dir makes and returns, a path below the root
MonthDir(dt) == <<Decimal(dt.year), Pad2(dt.month)>>

\* ------------------------------------------------------------ file system
VARIABLES
    dirs,     \* the directories of the archive: paths below the root, <<>> the root
    files,    \* the regular files of the archive: path |-> stored text
    now,      \* the wall clock, datetime.now()
    logs,     \* ~/.claude/projects: the session logs, or absent
    call,     \* the last request: tool name and argument map
    resp,     \* the response to it
    escaped,  \* an exception crossed call_tool
    ticks,    \* seconds elapsed
    writes    \* file-writing calls made
vars == <<dirs, files, now, logs, call, resp, escaped, ticks, writes>>

Last(p) == p[Len(p)]
Parent(p) == SubSeq(p, 1, Len(p) - 1)
Prefixes(p) == {SubSeq(p, 1, k) : k \in 0..Len(p)}
\* The host around the archive: the Archive Root is the directory RootName
\* of the host's root directory, which also holds a file that is no part of
\* the archive.  A path that leaves the archive is written from the Archive
\* Root too: HostRoot is the root's parent, <<"..", n>> the host's /n.
RootName == <<"t">>
HostRoot == <<<<".", ".">>>>
OutsideFiles == (HostRoot \o <<<<"s">>>>) :> <<"k", "\n">>
\* Path.is_dir()
IsDir(ds, p) == p \in ds \/ p = HostRoot
\* Path.exists()
Exists(ds, fs, p) == IsDir(ds, p) \/ p \in DOMAIN fs \/ p \in DOMAIN OutsideFiles
\* Path.name of an entry
NameOf(p) == IF p = <<>> THEN RootName ELSE Last(p)
\* d / name as the host resolves it: ".." is the parent directory (the
\* host's root being its own parent)
Step(d, name) ==
    IF name = <<".", ".">>
    THEN (IF d = <<>> \/ d = HostRoot THEN HostRoot ELSE Parent(d))
    ELSE IF d = HostRoot /\ name = RootName THEN <<>>
    ELSE d \o <<name>>
\* the entries of directory d (os.scandir)
Children(ds, fs, d) ==
    IF d \in ds
    THEN {p \in ds \cup DOMAIN fs : Len(p) = Len(d) + 1 /\ Parent(p) = d}
    ELSE IF d = HostRoot
    THEN {p \in DOMAIN OutsideFiles : Len(p) = 2} \cup ({<<>>} \cap ds)
    ELSE {}
\* every path strictly below directory d
Descendants(ds, fs, d) ==
    IF d \in ds
    THEN {p \in ds \cup DOMAIN fs : Len(p) > Len(d) /\ SubSeq(p, 1, Len(d)) = d}
    ELSE {}

RECURSIVE FnMatch(_, _)
\* fnmatch of one name against one pattern component: "*" any run, "?" any
\* one character, anything else itself
FnMatch(name, pat) ==
    IF pat = <<>> THEN name = <<>>
    ELSE IF Head(pat) = "*"
         THEN \E k \in 0..Len(name) : FnMatch(Drop(name, k), Tail(pat))
    ELSE IF Head(pat) = "?"
         THEN name # <<>> /\ FnMatch(Tail(name), Tail(pat))
    ELSE name # <<>> /\ Head(name) = Head(pat) /\ FnMatch(Tail(name), Tail(pat))

\* d.glob(pattern) for a one-component pattern
Glob(ds, fs, d, pat) == {p \in Children(ds, fs, d) : FnMatch(NameOf(p), pat)}
RECURSIVE Select(_, _, _, _)
\* what the components pats of a pattern select from path p on: a component
\* with a wildcard the entries of p that match it, any other component
\* (".." too) the path p / component if it exists
Select(ds, fs, p, pats) ==
    IF pats = <<>> THEN {p}
    ELSE IF ~IsDir(ds, p) THEN {}
    ELSE IF \E i \in DOMAIN Head(pats) : Head(pats)[i] \in {"*", "?"}
         THEN UNION {Select(ds, fs, c, Tail(pats)) : c \in Glob(ds, fs, p, Head(pats))}
    ELSE IF Exists(ds, fs, Step(p, Head(pats)))
         THEN Select(ds, fs, Step(p, Head(pats)), Tail(pats))
    ELSE {}
\* d.rglob(pattern): what the pattern selects from d and from every
\* directory below d
RGlob(ds, fs, d, pats) ==
    UNION {Select(ds, fs, start, pats) :
              start \in ({d} \cup Descendants(ds, fs, d)) \cap ds}

RECURSIVE SplitAt(_, _)
\* s.split(sep) for a one-character sep
SplitAt(s, sep) ==
    IF \A i \in DOMAIN s : s[i] # sep THEN <<s>>
    ELSE LET k == CHOOSE i \in DOMAIN s : s[i] = sep /\ \A j \in 1..(i - 1) : s[j] # sep
         IN  <<SubSeq(s, 1, k - 1)>> \o SplitAt(Drop(s, k), sep)
\* the names of a relative path string: pathlib drops empty and "." components
PathParts(s) == SelectSeq(SplitAt(s, "/"), LAMBDA n : n # <<>> /\ n # <<".">>)

\* p < q for paths: pathlib compares the lists of names
PathLess(p, q) ==
    LET differ == {i \in 1..Min(Len(p), Len(q)) : p[i] # q[i]}
    IN  IF differ = {} THEN Len(p) < Len(q)
        ELSE LET i == CHOOSE k \in differ : \A j \in differ : k <= j
             IN  StrLess(p[i], q[i])
RECURSIVE SetToSeq(_)
\* the members of a finite set, in some order
SetToSeq(S) ==
    IF S = {} THEN <<>>
    ELSE LET x == CHOOSE y \in S : TRUE
         IN  <<x>> \o SetToSeq(S \ {x})
\* sorted(paths)
SortedAsc(S) == SortSeq(SetToSeq(S), PathLess)
RECURSIVE Reverse(_)
Reverse(s) == IF s = <<>> THEN <<>> ELSE Reverse(Tail(s)) \o <<Head(s)>>
\* sorted(paths, reverse=True)
SortedDesc(S) == Reverse(SortedAsc(S))

\* os.linesep of the host
LineSep == <<"\n">>
\* what text-mode writing stores: every "\n" becomes os.linesep
WriteTranslate(text) == ReplaceChar(text, "\n", LineSep)
\* what text-mode reading returns (universal newlines): "\r\n" and a lone
\* "\r" both read as "\n"
ReadTranslate(stored) ==
    FlattenSeqs([i \in DOMAIN stored |->
        IF stored[i] = "\r" THEN <<"\n">>
        ELSE IF stored[i] = "\n" /\ i > 1 /\ stored[i - 1] = "\r" THEN <<>>
        ELSE <<stored[i]>>])
\* month_dir.mkdir(parents=True, exist_ok=True) fails when a name on the way
\* is a regular file
MkdirBlocked(fs, p) == \E q \in Prefixes(p) : q \in DOMAIN fs
\* the directories after month_dir.mkdir(parents=True, exist_ok=True)
MkdirParents(ds, p) == ds \cup Prefixes(p)
\* a write that leaves the new file alone in the archive
MutWriteText_DropsOthers(fs, p, text) == [q \in {p} |-> WriteTranslate(text)]
\* the files after filepath.write_text(text, encoding="utf-8")
WriteText(fs, p, text) ==
    [q \in DOMAIN fs \cup {p} |-> IF q = p THEN WriteTranslate(text) ELSE fs[q]]
\* the files after shutil.copy2(src, p): the bytes as they are
CopyFile(fs, p, bytes) ==
    [q \in DOMAIN fs \cup {p} |-> IF q = p THEN bytes ELSE fs[q]]

\* -------------------------------------------------------------- responses
\* The JSON payload of a response; kind tells which fields are meant:
\* "error" {error}, "saved" the result of a save, "list" the result of
\* list_transcripts, "text" the text read_transcript returns, "path" the
\* result of get_transcripts_path.
NoResp ==
    [kind |-> "none", error |-> "", filepath |-> <<>>, filename |-> <<>>,
     text |-> <<>>, transcripts |-> <<>>, total |-> 0, message |-> "",
     exists |-> FALSE, count |-> 0, source |-> <<>>, raw |-> <<>>]
ErrorPayload(msg) == [NoResp EXCEPT !.kind = "error", !.error = msg]
\* what a handler body did: the response it returned, or the exception it
\* raised, and the file system it left
Returned(ds, fs, r) == [raised |-> FALSE, exc |-> "", dirs |-> ds, files |-> fs, resp |-> r]
Raised(ds, fs, e) == [raised |-> TRUE, exc |-> e, dirs |-> ds, files |-> fs, resp |-> NoResp]

\* try: <body> except OSError as e: ..., every other exception passing through
MutTryExcept_OnlyOSError(out) ==
    [resp |-> IF out.raised
              THEN (IF out.exc = "OSError" THEN ErrorPayload(out.exc) ELSE NoResp)
              ELSE out.resp,
     escaped |-> out.raised /\ out.exc # "OSError", dirs |-> out.dirs, files |-> out.files]
\* try: <body> except Exception as e: return {"error": str(e)}
TryExcept(out) ==
    [resp |-> IF out.raised THEN ErrorPayload(out.exc) ELSE out.resp,
     escaped |-> FALSE, dirs |-> out.dirs, files |-> out.files]
\* <body> with no try around it
NoTry(out) ==
    [resp |-> out.resp, escaped |-> out.raised, dirs |-> out.dirs, files |-> out.files]

\* ---------------------------------------------------------- save_transcript
\* the text of `', '.join(tags)`: of a list its items, of a string its characters
TagsText(tags) ==
    IF tags.t = "str"
    THEN Join(L_CommaSpace, [i \in DOMAIN tags.s |-> <<tags.s[i]>>])
    ELSE Join(L_CommaSpace, tags.l)
\* md_parts of save_transcript
TranscriptParts(dt, content, title, tags, summary) ==
    <<L_Dashes, L_Date \o IsoFormat(dt)>>
    \o (IF Truthy(title) THEN <<L_TitleOpen \o title.s \o L_Quote>> ELSE <<>>)
    \o (IF Truthy(tags) THEN <<L_TagsOpen \o TagsText(tags) \o L_TagsClose>> ELSE <<>>)
    \o (IF Truthy(summary) THEN <<L_SummaryOpen \o summary.s \o L_Quote>> ELSE <<>>)
    \o <<L_Dashes, <<>>>>
    \o (IF Truthy(title)
        THEN <<L_Hash \o title.s, <<>>, L_SavedOpen \o StrfHuman(dt) \o L_Star>>
        ELSE <<L_TranscriptDash \o StrfHuman(dt)>>)
    \o <<<<>>>>
    \o (IF Truthy(summary) THEN <<L_SummaryHeading, <<>>, summary.s, <<>>>> ELSE <<>>)
    \o <<L_TranscriptHeading, <<>>, content.s>>
\* save_transcript from "Get timestamp and paths" on: content is a string
\* that is not blank; fault says that the file system refuses the first access
SaveTranscriptWrite(ds, fs, dt, a, fault) ==
    LET content == GetOr(a.content, StrV(<<>>))
        title == Get(a.title)
        tags == GetOr(a.tags, ListV(<<>>))
        summary == Get(a.summary)
        month_dir == MonthDir(dt)
        ds2 == MkdirParents(ds, month_dir)
        filename == generate_filename(dt, title)
        filepath == month_dir \o <<filename>>
        full_content == Join(<<"\n">>, TranscriptParts(dt, content, title, tags, summary))
    IN  IF fault \/ MkdirBlocked(fs, month_dir) THEN Raised(ds, fs, "OSError")
        ELSE IF Truthy(title) /\ title.t # "str" THEN Raised(ds2, fs, "TypeError")
        ELSE IF Truthy(tags) /\ tags.t \notin {"list", "str"}
             THEN Raised(ds2, fs, "TypeError")
        ELSE IF Truthy(summary) /\ summary.t # "str" THEN Raised(ds2, fs, "TypeError")
        ELSE IF filepath \in ds2 THEN Raised(ds2, fs, "IsADirectoryError")
        ELSE Returned(ds2, WriteText(fs, filepath, full_content),
                      [NoResp EXCEPT !.kind = "saved", !.filepath = filepath,
                                     !.filename = filename])
\* save_transcript with the month directory made before the content is looked at
MutSaveTranscript_MkdirFirst(ds, fs, dt, a, fault) ==
    LET content == GetOr(a.content, StrV(<<>>))
    IN  IF content.t # "str" THEN Raised(ds, fs, "AttributeError")
        ELSE IF Strip(content.s) = <<>>
             THEN Returned(MkdirParents(ds, MonthDir(dt)), fs,
                           ErrorPayload("Content cannot be empty"))
        ELSE SaveTranscriptWrite(ds, fs, dt, a, fault)
\* the body of the save_transcript branch; a is the argument map
SaveTranscript(ds, fs, dt, a, fault) ==
    LET content == GetOr(a.content, StrV(<<>>))
    IN  IF content.t # "str" THEN Raised(ds, fs, "AttributeError")
        ELSE IF Strip(content.s) = <<>>
             THEN Returned(ds, fs, ErrorPayload("Content cannot be empty"))
        ELSE SaveTranscriptWrite(ds, fs, dt, a, fault)

\* --------------------------------------------------------- list_transcripts
DefaultLimit == 20
\* name.isdigit()
IsDigits(name) ==
    /\ name # <<>>
    /\ \A i \in DOMAIN name : name[i] \in {DigitChars[k] : k \in DOMAIN DigitChars}
\* str(year_filter)
YearName(v) == IF v.t = "str" THEN v.s ELSE Decimal(v.n)
\* search_dirs with the year directories sorted without reverse=True
MutSearchDirs_YearsAscending(ds, fs, year_filter, month_filter) ==
    IF Truthy(year_filter) /\ Truthy(month_filter)
    THEN <<<<YearName(year_filter), Pad2(month_filter.n)>>>>
    ELSE IF Truthy(year_filter)
    THEN LET year_dir == <<YearName(year_filter)>>
         IN  IF Exists(ds, fs, year_dir)
             THEN SortedAsc(Glob(ds, fs, year_dir, <<"*">>))
             ELSE <<>>
    ELSE LET years == SelectSeq(SortedAsc(Glob(ds, fs, <<>>, <<"*">>)),
                                LAMBDA y : y \in ds /\ IsDigits(Last(y)))
             months(y) == SelectSeq(SortedDesc(Glob(ds, fs, y, <<"*">>)),
                                    LAMBDA m : m \in ds)
         IN  FlattenSeqs([i \in DOMAIN years |-> months(years[i])])
\* search_dirs of list_transcripts
SearchDirs(ds, fs, year_filter, month_filter) ==
    IF Truthy(year_filter) /\ Truthy(month_filter)
    THEN <<<<YearName(year_filter), Pad2(month_filter.n)>>>>
    ELSE IF Truthy(year_filter)
    THEN LET year_dir == <<YearName(year_filter)>>
         IN  IF Exists(ds, fs, year_dir)
             THEN SortedAsc(Glob(ds, fs, year_dir, <<"*">>))
             ELSE <<>>
    ELSE LET years == SelectSeq(SortedDesc(Glob(ds, fs, <<>>, <<"*">>)),
                                LAMBDA y : y \in ds /\ IsDigits(Last(y)))
             months(y) == SelectSeq(SortedDesc(Glob(ds, fs, y, <<"*">>)),
                                    LAMBDA m : m \in ds)
         IN  FlattenSeqs([i \in DOMAIN years |-> months(years[i])])
RECURSIVE MutCollect_OffByOne(_, _, _, _, _)
\* the loops with `len(transcripts) > limit` for `>=`
MutCollect_OffByOne(ds, fs, search_dirs, acc, limit) ==
    IF search_dirs = <<>> THEN acc
    ELSE IF ~Exists(ds, fs, Head(search_dirs))
         THEN MutCollect_OffByOne(ds, fs, Tail(search_dirs), acc, limit)
    ELSE LET found == SortedDesc(Glob(ds, fs, Head(search_dirs), <<"*", ".", "m", "d">>))
             room == IF limit + 1 > Len(acc) THEN limit + 1 - Len(acc) ELSE 0
             acc2 == acc \o Take(found, room)
         IN  IF Len(acc2) > limit THEN acc2
             ELSE MutCollect_OffByOne(ds, fs, Tail(search_dirs), acc2, limit)
RECURSIVE Collect(_, _, _, _, _)
\* the "Collect transcript files" loops: acc is `transcripts` so far
Collect(ds, fs, search_dirs, acc, limit) ==
    IF search_dirs = <<>> THEN acc
    ELSE IF ~Exists(ds, fs, Head(search_dirs))
         THEN Collect(ds, fs, Tail(search_dirs), acc, limit)
    ELSE LET found == SortedDesc(Glob(ds, fs, Head(search_dirs), <<"*", ".", "m", "d">>))
             room == IF limit > Len(acc) THEN limit - Len(acc) ELSE 0
             acc2 == acc \o Take(found, room)
         IN  IF Len(acc2) >= limit THEN acc2
             ELSE Collect(ds, fs, Tail(search_dirs), acc2, limit)
\* one entry of the listing
Entry(p) == [filename |-> Last(p), path |-> p]
\* the body of the list_transcripts branch
ListTranscripts(ds, fs, a, fault) ==
    LET year_filter == Get(a.year)
        month_filter == Get(a.month)
        limit == GetOr(a.limit, IntV(DefaultLimit))
        search_dirs == SearchDirs(ds, fs, year_filter, month_filter)
        found == Collect(ds, fs, search_dirs, <<>>, limit.n)
        transcripts == [i \in DOMAIN found |-> Entry(found[i])]
    IN  IF fault THEN Raised(ds, fs, "OSError")
        ELSE IF ~Exists(ds, fs, <<>>)
             THEN Returned(ds, fs, [NoResp EXCEPT !.kind = "list",
                                                  !.message = "No transcripts directory yet"])
        ELSE IF Truthy(year_filter) /\ Truthy(month_filter) /\ month_filter.t # "int"
             THEN Raised(ds, fs, "ValueError")
        ELSE IF limit.t \notin {"int", "bool"}
                /\ \E i \in DOMAIN search_dirs : Exists(ds, fs, search_dirs[i])
             THEN Raised(ds, fs, "TypeError")
        ELSE Returned(ds, fs, [NoResp EXCEPT !.kind = "list",
                                             !.transcripts = transcripts,
                                             !.total = Len(transcripts)])

\* ---------------------------------------------------------- read_transcript
\* a path string that starts at the host's root
IsAbsolute(s) == s # <<>> /\ Head(s) = "/"
\* no path at all
NoPath == <<<<>>>>
RECURSIVE Walk(_, _, _, _)
\* the path the host reaches from p along the names parts, NoPath if a name
\* on the way is no directory or the last one does not exist
Walk(ds, fs, p, parts) ==
    IF parts = <<>> THEN (IF Exists(ds, fs, p) THEN p ELSE NoPath)
    ELSE IF ~IsDir(ds, p) THEN NoPath
    ELSE Walk(ds, fs, Step(p, Head(parts)), Tail(parts))
\* base_dir / filename if it exists (an absolute filename replaces base_dir)
Resolve(ds, fs, s) ==
    Walk(ds, fs, IF IsAbsolute(s) THEN HostRoot ELSE <<>>, PathParts(s))
\* where read_transcript may take the text from: the relative path if it
\* exists, else any hit of the recursive search (found_files[0]: the order
\* is the directory order of the file system)
ReadCandidates(ds, fs, s) ==
    LET filepath == Resolve(ds, fs, s)
    IN  IF filepath # NoPath THEN {filepath}
        ELSE IF IsAbsolute(s) THEN {}
        ELSE RGlob(ds, fs, <<>>, PathParts(s))
\* the body of the read_transcript branch once the file is chosen;
\* target is the chosen candidate, <<>> when there is none
ReadTranscript(ds, fs, a, target, fault) ==
    LET filename == GetOr(a.filename, StrV(<<>>))
        parts == PathParts(filename.s)
    IN  IF ~Truthy(filename) THEN Returned(ds, fs, ErrorPayload("Filename is required"))
        ELSE IF filename.t # "str" THEN Raised(ds, fs, "TypeError")
        ELSE IF fault THEN Raised(ds, fs, "OSError")
        ELSE IF Resolve(ds, fs, filename.s) = NoPath /\ IsAbsolute(filename.s)
             THEN Raised(ds, fs, "NotImplementedError")
        ELSE IF Resolve(ds, fs, filename.s) = NoPath /\ parts = <<>>
             THEN Raised(ds, fs, "ValueError")
        ELSE IF ReadCandidates(ds, fs, filename.s) = {}
             THEN Returned(ds, fs, ErrorPayload("Transcript not found"))
        ELSE IF IsDir(ds, target) THEN Raised(ds, fs, "IsADirectoryError")
        ELSE Returned(ds, fs, [NoResp EXCEPT !.kind = "text", !.filepath = target,
                                             !.text = ReadTranslate((fs @@ OutsideFiles)[target])])

\* ----------------------------------------------------- get_transcripts_path
\* get_transcripts_path making the root it reports on
MutGetTranscriptsPath_MakesRoot(ds, fs, fault) ==
    IF fault THEN Raised(ds, fs, "OSError")
    ELSE Returned(ds \cup {<<>>}, fs,
            [NoResp EXCEPT !.kind = "path", !.exists = TRUE,
                           !.count = Cardinality(RGlob(ds, fs, <<>>, <<<<"*", ".", "m", "d">>>>))])
\* the body of the get_transcripts_path branch
GetTranscriptsPath(ds, fs, fault) ==
    IF fault THEN Raised(ds, fs, "OSError")
    ELSE Returned(ds, fs,
            [NoResp EXCEPT !.kind = "path", !.exists = Exists(ds, fs, <<>>),
                           !.count = Cardinality(RGlob(ds, fs, <<>>, <<<<"*", ".", "m", "d">>>>))])

\* ------------------------------------------------------ transcript renderer
\* A line of a session log, as json.loads sees it: k is "blank" (nothing but
\* whitespace), "bad" (not JSON), "scalar" (JSON, but no object) or "obj".
\* An object carries its "type", its message.content (for user and assistant
\* records) and its "subtype" and "content" (for system records).
NoContent == [t |-> "missing", s |-> <<>>, items |-> <<>>]
StrContent(x) == [t |-> "str", s |-> x, items |-> <<>>]
ListContent(xs) == [t |-> "list", s |-> <<>>, items |-> xs]
NoName == [t |-> "missing", s |-> <<>>]
\* content items
TextItem(x) == [type |-> "text", text |-> x, name |-> NoName, inner |-> NoContent, input |-> <<>>]
ThinkingItem(x) ==
    [type |-> "thinking", text |-> x, name |-> NoName, inner |-> NoContent, input |-> <<>>]
ToolUseItem(nm, inp) ==
    [type |-> "tool_use", text |-> <<>>, name |-> nm, inner |-> NoContent, input |-> inp]
ToolResultItem(c) ==
    [type |-> "tool_result", text |-> <<>>, name |-> NoName, inner |-> c, input |-> <<>>]
OtherItem(ty) == [type |-> ty, text |-> <<>>, name |-> NoName, inner |-> NoContent, input |-> <<>>]
\* lines
BlankLine == [k |-> "blank", type |-> "", content |-> NoContent, subtype |-> <<>>, text |-> <<>>]
BadLine == [BlankLine EXCEPT !.k = "bad"]
ScalarLine == [BlankLine EXCEPT !.k = "scalar"]
Record(ty, c) == [BlankLine EXCEPT !.k = "obj", !.type = ty, !.content = c]
SystemRecord(sub, x) ==
    [BlankLine EXCEPT !.k = "obj", !.type = "system", !.subtype = sub, !.text = x]

\* json.dumps(tool_input, indent=2) of an object of string members
JsonDump(input) ==
    IF input = <<>> THEN L_EmptyObject
    ELSE <<"{", "\n">>
         \o Join(<<",", "\n">>,
                 [i \in DOMAIN input |->
                    <<" ", " ", "\"">> \o input[i][1] \o <<"\"", ":", " ", "\"">>
                    \o input[i][2] \o <<"\"">>])
         \o <<"\n", "}">>
\* the sections one item of a user record's content list appends
UserItemSections(item) ==
    IF item.type = "text" THEN <<L_Human \o item.text \o <<"\n">>>>
    ELSE IF item.type = "tool_result"
    THEN IF item.inner.t = "list"
         THEN LET texts == SelectSeq(item.inner.items, LAMBDA tc : tc.type = "text")
              IN  [i \in DOMAIN texts |-> L_ToolResultOpen \o texts[i].text \o L_FenceClose]
         ELSE <<L_ToolResultOpen \o item.inner.s \o L_FenceClose>>
    ELSE <<>>
\* the sections one item of an assistant record's content list appends
AssistantItemSections(item) ==
    IF item.type = "text" THEN <<L_Claude \o item.text \o <<"\n">>>>
    ELSE IF item.type = "thinking" THEN <<L_Thinking \o item.text \o <<"\n">>>>
    ELSE IF item.type = "tool_use"
    THEN <<L_ToolUse \o (IF item.name.t = "missing" THEN L_Unknown ELSE item.name.s)
           \o L_JsonFenceOpen \o JsonDump(item.input) \o L_FenceClose>>
    ELSE <<>>
\* the sections one parsed record appends to md_parts
RecordSections(msg) ==
    IF msg.type \in {"summary", "file-history-snapshot"} THEN <<>>
    ELSE IF msg.type = "user"
    THEN IF msg.content.t \in {"str", "missing"}
         THEN <<L_Human \o msg.content.s \o <<"\n">>>>
         ELSE IF msg.content.t = "list"
         THEN FlattenSeqs([i \in DOMAIN msg.content.items |->
                              UserItemSections(msg.content.items[i])])
         ELSE <<>>
    ELSE IF msg.type = "assistant"
    THEN IF msg.content.t = "list"
         THEN FlattenSeqs([i \in DOMAIN msg.content.items |->
                              AssistantItemSections(msg.content.items[i])])
         ELSE <<>>
    ELSE IF msg.type = "system"
    THEN IF msg.text # <<>> /\ msg.subtype # <<>>
         THEN <<L_SystemOpen \o msg.subtype \o L_SystemClose \o msg.text \o <<"\n">>>>
         ELSE <<>>
    ELSE <<>>
\* `messages`: the lines json.loads accepted
ParsedLines(lines) == SelectSeq(lines, LAMBDA ln : ln.k \in {"obj", "scalar"})
\* msg.get raises AttributeError on a JSON value that is no object
RenderRaises(lines) == \E i \in DOMAIN lines : lines[i].k = "scalar"
\* parse_jsonl_to_markdown
parse_jsonl_to_markdown(lines) ==
    LET messages == ParsedLines(lines)
    IN  Join(<<"\n">>, FlattenSeqs([i \in DOMAIN messages |-> RecordSections(messages[i])]))

\* ------------------------------------------------------ session log lookup
\* Path.stem: the name without its last suffix
Stem(name) ==
    LET dots == {i \in 2..Len(name) : name[i] = "."}
    IN  IF dots = {} THEN name
        ELSE SubSeq(name, 1, (CHOOSE i \in dots : \A j \in dots : j <= i) - 1)
\* cwd_to_project_dir(cwd): ":" removed, "\" and "/" turned into "-", and
\* one leading "-" taken off
cwd_to_project_dir(cwd) ==
    LET normalized == ReplaceChar(ReplaceChar(ReplaceChar(cwd, ":", <<>>), "\\", <<"-">>),
                                  "/", <<"-">>)
    IN  IF normalized # <<>> /\ Head(normalized) = "-" THEN Tail(normalized) ELSE normalized
\* projects_dir.rglob("*.jsonl")
JsonlFiles(lg) ==
    IF lg.exists
    THEN {p \in DOMAIN lg.files : FnMatch(Last(p), <<"*">> \o L_Jsonl)}
    ELSE {}
\* find_current_session_jsonl sorting without reverse=True: the oldest log
MutFindSession_Oldest(lg) ==
    {p \in JsonlFiles(lg) : \A q \in JsonlFiles(lg) : lg.files[p].mtime <= lg.files[q].mtime}
\* what find_current_session_jsonl() may return: a candidate that sorts
\* first by modification time, most recent first; {} stands for None
find_current_session_jsonl(lg) ==
    {p \in JsonlFiles(lg) : \A q \in JsonlFiles(lg) : lg.files[q].mtime <= lg.files[p].mtime}

\* ------------------------------------------------------ save_current_session
\* md_parts of save_current_session
SessionParts(dt, title, tags, jsonl_path, markdown_content) ==
    <<L_Dashes, L_Date \o IsoFormat(dt), L_TitleOpen \o title \o L_Quote,
      L_SessionFileOpen \o Last(jsonl_path) \o L_Quote,
      L_ProjectOpen \o Last(Parent(jsonl_path)) \o L_Quote>>
    \o (IF Truthy(tags) THEN <<L_TagsOpen \o TagsText(tags) \o L_TagsClose>> ELSE <<>>)
    \o <<L_Dashes, <<>>, L_Hash \o title, <<>>, L_SavedOpen \o StrfHuman(dt) \o L_Star,
         L_SourceOpen \o Last(jsonl_path) \o L_Star, <<>>, L_Dashes, <<>>, markdown_content>>
\* the body of the save_current_session branch; jsonl_path is what
\* find_current_session_jsonl returned, <<>> for None
SaveCurrentSession(ds, fs, dt, lg, a, jsonl_path, fault) ==
    LET tags == GetOr(a.tags, ListV(<<>>))
        include_raw == GetOr(a.include_raw, BoolV(FALSE))
        log == lg.files[jsonl_path]
        month_dir == MonthDir(dt)
        ds2 == MkdirParents(ds, month_dir)
        title == IF Truthy(Get(a.title)) THEN Get(a.title)
                 ELSE StrV(L_Session \o Stem(Last(jsonl_path)))
        filename == generate_filename(dt, title)
        filepath == month_dir \o <<filename>>
        full_content ==
            Join(<<"\n">>, SessionParts(dt, title.s, tags, jsonl_path,
                                        parse_jsonl_to_markdown(log.lines)))
        fs2 == WriteText(fs, filepath, full_content)
        raw_filepath == month_dir \o <<StrfFile(dt) \o L_RawJsonl>>
        saved == [NoResp EXCEPT !.kind = "saved", !.filepath = filepath,
                                !.filename = filename, !.source = jsonl_path]
    IN  IF fault THEN Raised(ds, fs, "OSError")
        ELSE IF jsonl_path = <<>>
             THEN Returned(ds, fs, ErrorPayload("Could not find any session files"))
        ELSE IF RenderRaises(log.lines) THEN Raised(ds, fs, "AttributeError")
        ELSE IF MkdirBlocked(fs, month_dir) THEN Raised(ds, fs, "OSError")
        ELSE IF title.t # "str" THEN Raised(ds2, fs, "TypeError")
        ELSE IF Truthy(tags) /\ tags.t \notin {"list", "str"}
             THEN Raised(ds2, fs, "TypeError")
        ELSE IF Truthy(include_raw)
             THEN Returned(ds2, CopyFile(fs2, raw_filepath, log.raw),
                           [saved EXCEPT !.raw = raw_filepath])
        ELSE Returned(ds2, fs2, saved)

\* ------------------------------------------------------------- call_tool
\* the argument map of a request; a key the request leaves out is Missing
NoArgs ==
    [content |-> Missing, title |-> Missing, tags |-> Missing, summary |-> Missing,
     year |-> Missing, month |-> Missing, limit |-> Missing, filename |-> Missing,
     include_raw |-> Missing, cwd |-> Missing]
NoCall == [name |-> "none", args |-> NoArgs, fault |-> FALSE]
\* the else branch of call_tool
UnknownTool(ds, fs) == Returned(ds, fs, ErrorPayload("Unknown tool"))

\* One request served by call_tool: done is what its branch did
Serve(name, a, fault, done) ==
    /\ call' = [name |-> name, args |-> a, fault |-> fault]
    /\ resp' = done.resp
    /\ escaped' = (escaped \/ done.escaped)
    /\ dirs' = done.dirs
    /\ files' = done.files
    /\ writes' = IF done.dirs # dirs \/ done.files # files THEN writes + 1 ELSE writes
    /\ UNCHANGED <<now, logs, ticks>>

\* ---------------------------------------------------------------- inputs
T_a == <<"a">>
T_aSlash == <<"a", "/">>
C_a == <<"a">>
C_blank == <<" ", "\n">>
C_cr == <<"a", "\r", "b">>
Tags_tu == <<<<"t">>, <<"u">>>>
\* argument maps tried on save_transcript
SaveArgs ==
    {[NoArgs EXCEPT !.content = c] :
        c \in {Missing, NoneV, StrV(<<>>), StrV(C_blank), StrV(C_a), StrV(C_cr)}}
    \cup {[NoArgs EXCEPT !.content = StrV(C_a), !.title = StrV(T_a)],
          [NoArgs EXCEPT !.content = StrV(C_cr), !.title = StrV(T_aSlash),
                         !.tags = ListV(Tags_tu), !.summary = StrV(<<"s">>)],
          [NoArgs EXCEPT !.content = StrV(C_a), !.tags = IntV(5)],
          [NoArgs EXCEPT !.content = StrV(C_blank), !.title = StrV(T_a),
                         !.tags = ListV(Tags_tu), !.summary = StrV(<<"s">>)]}
\* argument maps tried on list_transcripts
ListArgs ==
    {[NoArgs EXCEPT !.year = y, !.month = m, !.limit = l] :
        y \in {Missing, IntV(2024)}, m \in {Missing, IntV(12)},
        l \in {Missing, IntV(2)}}
    \cup {[NoArgs EXCEPT !.limit = l] : l \in {IntV(0), NoneV}}
\* the clock at the start
StartTime ==
    [year |-> 2024, month |-> 12, day |-> 31, hour |-> 23, minute |-> 59, second |-> 59]
\* the clock when the oldest document of a populated archive was saved
SeedTime ==
    [year |-> 2023, month |-> 12, day |-> 31, hour |-> 23, minute |-> 59, second |-> 50]
\* "a/b/c" of a path
PathString(p) == Join(<<"/">>, p)
\* argument maps tried on read_transcript
ReadArgs ==
    {[NoArgs EXCEPT !.filename = f] :
        f \in {Missing,
               StrV(generate_filename(StartTime, NoneV)),
               StrV(PathString(MonthDir(StartTime) \o <<generate_filename(StartTime, NoneV)>>)),
               StrV(generate_filename(StartTime, StrV(T_a))),
               StrV(generate_filename(SeedTime, NoneV)),
               StrV(<<"*", "5", "9", ".", "m", "d">>),
               StrV(<<"2", "0", "2", "4">>)}}
\* filenames that name something outside the Archive Root: absolute, with
\* ".." from the root, with ".." from a directory the search finds, and the
\* same for a file that does not exist
OutsideArgs ==
    {[NoArgs EXCEPT !.filename = StrV(f)] :
        f \in {<<"/", "s">>,
               <<".", ".", "/", "s">>,
               <<"1", "2", "/", ".", ".", "/", ".", ".", "/", ".", ".", "/", "s">>,
               <<"/", "x">>,
               <<".", ".", "/", "x">>,
               <<"/", "t", "/", "2", "0", "2", "4">>
                  \o <<"/">> \o PathString(<<Pad2(StartTime.month),
                                              generate_filename(StartTime, NoneV)>>)}}
\* argument maps tried on save_current_session
SessionArgs ==
    {NoArgs,
     [NoArgs EXCEPT !.title = StrV(T_a), !.include_raw = BoolV(TRUE)],
     [NoArgs EXCEPT !.tags = IntV(5)]}

\* session logs of the external tool
LinesA ==
    <<Record("user", StrContent(<<"H", "i">>)), BadLine,
      Record("assistant", ListContent(<<TextItem(<<"H", "e", "l", "l", "o">>)>>)),
      Record("summary", NoContent)>>
LinesB ==
    <<BlankLine,
      Record("user", ListContent(<<TextItem(<<"q">>),
                                   ToolResultItem(ListContent(<<TextItem(<<"x">>),
                                                                TextItem(<<"y">>)>>)),
                                   ToolResultItem(StrContent(<<"z">>))>>)),
      Record("assistant", ListContent(<<ThinkingItem(<<"h">>),
                                        ToolUseItem([t |-> "str", s |-> <<"l", "s">>],
                                                    <<<<<<"k">>, <<"v">>>>>>),
                                        OtherItem("image")>>)),
      SystemRecord(<<"i">>, <<"c">>),
      Record("progress", NoContent)>>
NoFiles == [p \in {} |-> <<>>]
NoLogs == [exists |-> FALSE, files |-> NoFiles]
TwoLogs ==
    [exists |-> TRUE,
     files |->
        (<<<<"p">>, <<"s", "1", ".", "j", "s", "o", "n", "l">>>> :>
            [mtime |-> 1, lines |-> LinesA, raw |-> <<"{", "}", "\n">>])
        @@ (<<<<"q">>, <<"s", "2", ".", "j", "s", "o", "n", "l">>>> :>
            [mtime |-> 2, lines |-> LinesB, raw |-> <<"\n", "{", "}", "\r", "\n">>])]

\* A populated archive: what SeedCount saves of one-letter transcripts, one
\* a second from SeedTime on, leave behind.  The saves write different
\* files, so what they leave is the union of what each leaves.
SeedCount == DefaultLimit + 1
RECURSIVE SecondsAfter(_, _)
SecondsAfter(dt, k) == IF k = 0 THEN dt ELSE NextSecond(SecondsAfter(dt, k - 1))
EmptyArchive == [dirs |-> {}, files |-> NoFiles]
SeedSave(i) ==
    SaveTranscript(EmptyArchive.dirs, EmptyArchive.files, SecondsAfter(SeedTime, i - 1),
                   [NoArgs EXCEPT !.content = StrV(C_a)], FALSE)
SeededArchive ==
    LET saves == [i \in 1..SeedCount |-> SeedSave(i)]
        paths == UNION {DOMAIN saves[i].files : i \in 1..SeedCount}
    IN  [dirs |-> UNION {saves[i].dirs : i \in 1..SeedCount},
         files |-> [p \in paths |->
                      saves[CHOOSE i \in 1..SeedCount : p \in DOMAIN saves[i].files].files[p]]]

\* ------------------------------------------------------------- the system
\* what every behaviour starts from, the archive and the session logs aside
Started ==
    /\ now = StartTime
    /\ ticks = 0
    /\ writes = 0
    /\ call = NoCall
    /\ resp = NoResp
    /\ escaped = FALSE
\* the server comes up before anything was saved
Init ==
    /\ Started
    /\ dirs = EmptyArchive.dirs
    /\ files = EmptyArchive.files
    /\ logs \in {NoLogs, TwoLogs}
\* the server comes up on a populated archive
InitPopulated ==
    /\ Started
    /\ dirs = SeededArchive.dirs
    /\ files = SeededArchive.files
    /\ logs = TwoLogs

\* the host's clock moves on by a second
Tick ==
    /\ ticks < MaxTicks
    /\ ticks' = ticks + 1
    /\ now' = NextSecond(now)
    /\ call' = [NoCall EXCEPT !.name = "tick"]
    /\ resp' = NoResp
    /\ UNCHANGED <<dirs, files, logs, escaped, writes>>

CallSaveTranscript ==
    /\ writes < MaxWrites
    /\ \E a \in SaveArgs, fault \in BOOLEAN :
          /\ fault => a = [NoArgs EXCEPT !.content = StrV(C_a)]
          /\ Serve("save_transcript", a, fault,
                   TryExcept(SaveTranscript(dirs, files, now, a, fault)))

CallListTranscripts ==
    \E a \in ListArgs, fault \in BOOLEAN :
        /\ fault => a = NoArgs
        /\ Serve("list_transcripts", a, fault,
                 TryExcept(ListTranscripts(dirs, files, a, fault)))

CallReadTranscript ==
    \E a \in ReadArgs, fault \in BOOLEAN :
        LET found == IF a.filename.t = "str"
                     THEN ReadCandidates(dirs, files, a.filename.s) ELSE {}
        IN  /\ fault => a = [NoArgs EXCEPT !.filename = StrV(<<"2", "0", "2", "4">>)]
            /\ \E target \in (IF found = {} THEN {<<>>} ELSE found) :
                  Serve("read_transcript", a, fault,
                        TryExcept(ReadTranscript(dirs, files, a, target, fault)))

CallGetTranscriptsPath ==
    \E fault \in BOOLEAN :
        Serve("get_transcripts_path", NoArgs, fault,
              TryExcept(GetTranscriptsPath(dirs, files, fault)))

CallSaveCurrentSession ==
    /\ writes < MaxWrites
    /\ \E a \in SessionArgs, fault \in BOOLEAN :
          LET found == find_current_session_jsonl(logs)
          IN  /\ fault => a = NoArgs
              /\ \E jsonl_path \in (IF found = {} THEN {<<>>} ELSE found) :
                    Serve("save_current_session", a, fault,
                          TryExcept(SaveCurrentSession(dirs, files, now, logs, a,
                                                       jsonl_path, fault)))

CallUnknownTool ==
    Serve("delete_transcript", NoArgs, FALSE, NoTry(UnknownTool(dirs, files)))

Next ==
    \/ Tick
    \/ CallSaveTranscript
    \/ CallListTranscripts
    \/ CallReadTranscript
    \/ CallGetTranscriptsPath
    \/ CallSaveCurrentSession
    \/ CallUnknownTool

Spec == Init /\ [][Next]_vars
\* the listing over a populated archive that saves keep growing
NextPopulated ==
    \/ Tick
    \/ CallSaveTranscript
    \/ CallListTranscripts
SpecPopulated == InitPopulated /\ [][NextPopulated]_vars

\* ------------------------------------------- generate_filename on its own
TitleAlphabet == {"a", "7", " ", "-", "_", "/", "U+00E9"}
ShortTitles == UNION {[1..n -> TitleAlphabet] : n \in 0..MaxTitleLen}
\* t repeated up to n characters
Repeat(t, n) == [i \in 1..n |-> t[((i - 1) % Len(t)) + 1]]
\* titles one character longer than generate_filename keeps
LongTitles == {Repeat(t, TitleLimit + 1) : t \in ShortTitles \ {<<>>}}
FilenameTitles == {NoneV} \cup {StrV(t) : t \in ShortTitles \cup LongTitles}
InitFilename ==
    /\ Started
    /\ dirs = EmptyArchive.dirs
    /\ files = EmptyArchive.files
    /\ logs = NoLogs
\* generate_filename(now, title), its result kept in resp.filename
ApplyGenerateFilename ==
    \E title \in FilenameTitles :
        /\ call' = [name |-> "generate_filename",
                    args |-> [NoArgs EXCEPT !.title = title], fault |-> FALSE]
        /\ resp' = [NoResp EXCEPT !.kind = "filename",
                                  !.filename = generate_filename(now, title)]
        /\ UNCHANGED <<dirs, files, now, logs, escaped, ticks, writes>>
NextFilename ==
    \/ Tick
    \/ ApplyGenerateFilename
SpecFilename == InitFilename /\ [][NextFilename]_vars

\* ------------------------------------ parse_jsonl_to_markdown on its own
\* the lines a session log is made of here
RenderLines ==
    {BlankLine, BadLine, ScalarLine,
     Record("summary", NoContent),
     Record("progress", NoContent),
     Record("user", StrContent(<<"u">>)),
     Record("user", ListContent(<<TextItem(<<"q">>), ToolResultItem(StrContent(<<"z">>))>>)),
     Record("user", ListContent(<<ToolResultItem(ListContent(<<TextItem(<<"x">>),
                                                               TextItem(<<"y">>)>>))>>)),
     Record("user", ListContent(<<ToolResultItem(ListContent(<<>>))>>)),
     Record("assistant", ListContent(<<TextItem(<<"c">>)>>)),
     SystemRecord(<<"i">>, <<"n">>)}
\* the session logs rendered: every sequence of at most MaxLines lines
RenderInputs == UNION {[1..n -> RenderLines] : n \in 0..MaxLines}
LogPath == <<<<"p">>, <<"s", ".", "j", "s", "o", "n", "l">>>>
OneLog(lines) ==
    [exists |-> TRUE, files |-> (LogPath :> [mtime |-> 1, lines |-> lines, raw |-> <<>>])]
InitRender ==
    /\ Started
    /\ dirs = EmptyArchive.dirs
    /\ files = EmptyArchive.files
    /\ logs \in {OneLog(lines) : lines \in RenderInputs}
\* parse_jsonl_to_markdown(jsonl_path): the text it returns kept in
\* resp.text, or the exception it raises in resp.error
ApplyRender ==
    \E jsonl_path \in DOMAIN logs.files :
        LET lines == logs.files[jsonl_path].lines
        IN  /\ call' = [NoCall EXCEPT !.name = "parse_jsonl_to_markdown"]
            /\ resp' = IF RenderRaises(lines)
                       THEN [NoResp EXCEPT !.kind = "raised", !.error = "AttributeError",
                                           !.source = jsonl_path]
                       ELSE [NoResp EXCEPT !.kind = "rendered", !.source = jsonl_path,
                                           !.text = parse_jsonl_to_markdown(lines)]
            /\ UNCHANGED <<dirs, files, now, logs, escaped, ticks, writes>>
NextRender ==
    \/ Tick
    \/ ApplyRender
SpecRender == InitRender /\ [][NextRender]_vars

\* ------------------------------------------ save_current_session on its own
\* what may lie below the projects directory: session logs at different
\* depths and a file that is no session log
LogPaths ==
    {<<<<"p">>, <<"s", "1", ".", "j", "s", "o", "n", "l">>>>,
     <<<<"q">>, <<"r">>, <<"s", "2", ".", "j", "s", "o", "n", "l">>>>,
     <<<<"p">>, <<"n", ".", "t", "x", "t">>>>}
\* the states of the projects directory: absent, or holding any of LogPaths,
\* each file with a modification time of 1..MaxMtime
SessionLogs ==
    {NoLogs}
    \cup UNION {{[exists |-> TRUE,
                  files |-> [p \in S |-> [mtime |-> m[p],
                                          lines |-> IF Len(p) = 2 THEN LinesA ELSE LinesB,
                                          raw |-> <<"{", "}", "\n">>]]] :
                   m \in [S -> 1..MaxMtime]} : S \in SUBSET LogPaths}
InitSession ==
    /\ Started
    /\ dirs = EmptyArchive.dirs
    /\ files = EmptyArchive.files
    /\ logs \in SessionLogs
NextSession ==
    \/ Tick
    \/ CallSaveCurrentSession
SpecSession == InitSession /\ [][NextSession]_vars

\* --------------------------------------------- cwd_to_project_dir on its own
\* the two paths of the docstring
DocWindowsPath == <<"C", ":", "\\", "d", "e", "v">>
DocPosixPath ==
    <<"/", "h", "o", "m", "e", "/", "u", "s", "e", "r", "/", "p", "r", "o", "j", "e", "c", "t">>
\* the working directories tried: the docstring's, and every string of at
\* most MaxCwdLen characters over a drive letter, a name and the separators
CwdInputs ==
    {DocWindowsPath, DocPosixPath}
    \cup UNION {[1..n -> {"C", "d", ":", "\\", "/"}] : n \in 0..MaxCwdLen}
\* cwd_to_project_dir(cwd), its result kept in resp.text
ApplyCwdToProjectDir ==
    \E cwd \in CwdInputs :
        /\ call' = [name |-> "cwd_to_project_dir",
                    args |-> [NoArgs EXCEPT !.cwd = StrV(cwd)], fault |-> FALSE]
        /\ resp' = [NoResp EXCEPT !.kind = "project_dir", !.text = cwd_to_project_dir(cwd)]
        /\ UNCHANGED <<dirs, files, now, logs, escaped, ticks, writes>>
SpecProjectDir == InitFilename /\ [][ApplyCwdToProjectDir]_vars

\* --------------------------------- read_transcript and the host's files
\* read_transcript asked for a file outside the Archive Root
CallReadOutside ==
    \E a \in OutsideArgs :
        LET found == ReadCandidates(dirs, files, a.filename.s)
        IN  \E target \in (IF found = {} THEN {<<>>} ELSE found) :
               Serve("read_transcript", a, FALSE,
                     TryExcept(ReadTranscript(dirs, files, a, target, FALSE)))
NextRead ==
    \/ Tick
    \/ CallSaveTranscript
    \/ CallReadTranscript
    \/ CallReadOutside
SpecRead == Init /\ [][NextRead]_vars

\* ================================================================= claims
\* s begins with p, s ends with p
StartsWith(s, p) == Len(p) <= Len(s) /\ SubSeq(s, 1, Len(p)) = p
EndsWith(s, p) == Len(p) <= Len(s) /\ SubSeq(s, Len(s) - Len(p) + 1, Len(s)) = p
\* needle in hay
Contains(hay, needle) ==
    \E i \in 0..(Len(hay) - Len(needle)) : SubSeq(hay, i + 1, i + Len(needle)) = needle
\* the positions (counted from 0) at which needle lies in hay
Occurrences(hay, needle) ==
    {i \in 0..(Len(hay) - Len(needle)) : SubSeq(hay, i + 1, i + Len(needle)) = needle}
SaveOps == {"save_transcript", "save_current_session"}
ReadOps == {"list_transcripts", "read_transcript", "get_transcripts_path"}
\* the limit a list_transcripts request asks for
RequestedLimit(a) == IF a.limit.t = "missing" THEN 20 ELSE a.limit.n
\* the archive documents: the .md files of the month buckets
Documents == {p \in DOMAIN files : Len(p) = 3 /\ IsDigits(p[1]) /\ EndsWith(p[3], L_Md)}
\* content lies in text somewhere after a "## Transcript" heading
ContentAfterHeading(text, content) ==
    \E i \in Occurrences(text, L_TranscriptHeading) :
        Contains(Drop(text, i + Len(L_TranscriptHeading)), content)
\* the arguments of a save_transcript request have the types its schema names
WellTypedSave(a) ==
    /\ a.content.t = "str"
    /\ a.title.t \in {"missing", "str"}
    /\ a.tags.t \in {"missing", "list"}
    /\ a.summary.t \in {"missing", "str"}
\* content is left out, empty or nothing but whitespace
BlankContent(a) ==
    \/ a.content.t = "missing"
    \/ a.content.t = "str" /\ \A i \in DOMAIN a.content.s : a.content.s[i] \in Whitespace

\* C1: a save_transcript call whose content is not empty and not all
\* whitespace, whatever its title, tags and summary, answers "saved", and
\* the file at the returned path, read back as text, contains the content
\* verbatim after the "## Transcript" heading.
C1_SavedContentReadsBackVerbatim ==
    (/\ call.name = "save_transcript"
     /\ ~call.fault
     /\ WellTypedSave(call.args)
     /\ ~BlankContent(call.args))
    => /\ resp.kind = "saved"
       /\ resp.filepath \in DOMAIN files
       /\ ContentAfterHeading(ReadTranslate(files[resp.filepath]), call.args.content.s)

\* C2: save_transcript with empty or all-whitespace content answers an
\* error payload and leaves the file system as it was: no document, no
\* Archive Root and no Month Bucket is created.
C2_BlankContentChangesNothing ==
    [][(call'.name = "save_transcript" /\ BlankContent(call'.args))
       => (resp'.kind = "error" /\ dirs' = dirs /\ files' = files)]_vars
\* a whitespace-only save with title, tags and summary was refused and there
\* is still no Archive Root
C2_Witness ==
    /\ call.name = "save_transcript"
    /\ call.args.content.t = "str"
    /\ call.args.content.s = C_blank
    /\ call.args.title.t = "str"
    /\ resp.kind = "error"
    /\ resp.error = "Content cannot be empty"
    /\ dirs = {}
    /\ DOMAIN files = {}

\* C3: whatever the tool name and the arguments (missing, wrongly typed) and
\* whatever the file system refuses, call_tool answers the operation's result
\* or an {error: string} payload; no exception crosses it.
C3_NoExceptionEscapes ==
    /\ ~escaped
    /\ call.name \notin {"none", "tick"}
       => resp.kind \in {"error", "saved", "list", "text", "path"}
\* a wrongly typed limit made the body of list_transcripts raise, and the
\* answer is an error payload
C3_Witness ==
    /\ call.name = "list_transcripts"
    /\ call.args.limit.t = "none"
    /\ resp.kind = "error"
    /\ resp.error = "TypeError"
    /\ ~escaped

\* C4: list_transcripts never returns more entries than the limit asked for
\* (20 when none is given), and total is the number of entries returned.
C4_ListRespectsLimit ==
    (/\ call.name = "list_transcripts"
     /\ resp.kind = "list"
     /\ call.args.limit.t \in {"missing", "int"})
    => /\ Len(resp.transcripts) <= RequestedLimit(call.args)
       /\ resp.total = Len(resp.transcripts)
\* no limit was given, the archive holds more than 20 documents and 20 came back
C4_Witness ==
    /\ call.name = "list_transcripts"
    /\ call.args.limit.t = "missing"
    /\ resp.kind = "list"
    /\ Cardinality(Documents) > 20
    /\ Len(resp.transcripts) = 20
    /\ resp.total = 20

\* C5: list_transcripts, read_transcript and get_transcripts_path create,
\* change and delete nothing; with the Archive Root absent they report no
\* data (transcripts = [] and total = 0, exists = false, not found) and the
\* root is absent afterwards too.
C5_ReadsLeaveArchiveAlone ==
    [][call'.name \in ReadOps
       => /\ dirs' = dirs
          /\ files' = files
          /\ (<<>> \notin dirs /\ ~call'.fault)
             => /\ <<>> \notin dirs'
                /\ call'.name = "list_transcripts"
                   => (resp'.kind = "list" /\ resp'.transcripts = <<>> /\ resp'.total = 0)
                /\ call'.name = "get_transcripts_path"
                   => (resp'.kind = "path" /\ ~resp'.exists)
                /\ call'.name = "read_transcript" => resp'.kind = "error"]_vars
\* get_transcripts_path answered exists = false and there is still no root
C5_Witness ==
    /\ call.name = "get_transcripts_path"
    /\ resp.kind = "path"
    /\ ~resp.exists
    /\ <<>> \notin dirs

\* C6: list_transcripts narrows the search to the year and the month given:
\* with a year every entry lies under <root>/<year>/, with a month (with or
\* without a year) every entry lies in a bucket named by the zero-padded month.
C6_FiltersNarrowListing ==
    (call.name = "list_transcripts" /\ resp.kind = "list")
    => \A i \in DOMAIN resp.transcripts :
          LET p == resp.transcripts[i].path
          IN  /\ call.args.year.t = "int" => p[1] = Decimal(call.args.year.n)
              /\ call.args.month.t = "int" => p[2] = Pad2(call.args.month.n)

\* p is newer by name than q: by year name, then month name, then file name
NewerByName(p, q) ==
    \/ StrLess(q[1], p[1])
    \/ p[1] = q[1] /\ StrLess(q[2], p[2])
    \/ p[1] = q[1] /\ p[2] = q[2] /\ StrLess(q[3], p[3])
\* C7: without a year or month filter the list returned is the first `limit`
\* documents of the archive in descending (year, month, filename) order: no
\* document left out is newer by name than one returned.
C7_ListIsNewestFirst ==
    (/\ call.name = "list_transcripts"
     /\ resp.kind = "list"
     /\ <<>> \in dirs
     /\ call.args.year.t = "missing"
     /\ call.args.month.t = "missing"
     /\ call.args.limit.t \in {"missing", "int"})
    => LET got == [i \in DOMAIN resp.transcripts |-> resp.transcripts[i].path]
           returned == {got[i] : i \in DOMAIN got}
       IN  /\ Len(got) = Min(RequestedLimit(call.args), Cardinality(Documents))
           /\ returned \subseteq Documents
           /\ \A i, j \in DOMAIN got : i < j => NewerByName(got[i], got[j])
           /\ \A q \in Documents \ returned : \A i \in DOMAIN got : NewerByName(got[i], q)
\* an unfiltered listing of 20 entries out of more, reaching over two years
C7_Witness ==
    /\ call.name = "list_transcripts"
    /\ call.args.year.t = "missing"
    /\ call.args.month.t = "missing"
    /\ call.args.limit.t = "missing"
    /\ resp.kind = "list"
    /\ Len(resp.transcripts) = 20
    /\ Cardinality(Documents) > 20
    /\ resp.transcripts[1].path[1] # resp.transcripts[20].path[1]

\* C8: read_transcript takes filename as a path below the root, else the
\* first file of a recursive search whose name equals filename (never a file
\* whose name only matches it as a pattern), and fails if and only if
\* neither finds a file.
C8_ReadFindsExactNameOnly ==
    (/\ call.name = "read_transcript"
     /\ ~call.fault
     /\ call.args.filename.t = "str"
     /\ call.args.filename.s # <<>>)
    => LET name == call.args.filename.s
           rel == PathParts(name)
           byName == {p \in DOMAIN files : Last(p) = name}
       IN  /\ resp.kind = "text"
              => \/ resp.filepath = rel
                 \/ rel \notin DOMAIN files /\ resp.filepath \in byName
           /\ resp.kind = "error" <=> (rel \notin DOMAIN files /\ byName = {})

\* the title part of a file name: what stands between "<timestamp>_" and ".md"
TitlePart(fn) == SubSeq(fn, 21, Len(fn) - 3)
DigitSet == {"0", "1", "2", "3", "4", "5", "6", "7", "8", "9"}
\* fn starts with a YYYY-MM-DD_HH-MM-SS stamp
StartsWithStamp(fn) ==
    /\ Len(fn) >= 19
    /\ \A i \in {1, 2, 3, 4, 6, 7, 9, 10, 12, 13, 15, 16, 18, 19} : fn[i] \in DigitSet
    /\ \A i \in {5, 8, 14, 17} : fn[i] = "-"
    /\ fn[11] = "_"
\* what generate_filename gives: stamp first, ".md" last, and between them
\* nothing, or "_" and at most 50 characters of the set allowed
FilenameShape(fn, title, allowed) ==
    /\ StartsWithStamp(fn)
    /\ EndsWith(fn, L_Md)
    /\ IF title.t = "str" /\ title.s # <<>>
       THEN /\ Len(fn) >= 23
            /\ fn[20] = "_"
            /\ Len(TitlePart(fn)) <= 50
            /\ \A i \in DOMAIN TitlePart(fn) : TitlePart(fn)[i] \in allowed
       ELSE Len(fn) = 22
\* C9 as claimed: the title part of generate_filename's result holds only
\* characters of [A-Za-z0-9_-], is at most 50 long, and the result starts
\* with the timestamp and ends in ".md".
C9_TitlePartIsAsciiSafe ==
    call.name = "generate_filename"
    => FilenameShape(resp.filename, call.args.title,
                     UpperChars \cup LowerChars \cup DigitSet \cup {"-", "_"})
\* C9 amended: the title part holds only letters and digits of any script
\* (str.isalnum), "-" and "_" (spaces become "-", everything else is
\* dropped), is at most 50 long, and the result starts with the timestamp
\* and ends in ".md".
C9_TitlePartIsAlnumSafe ==
    call.name = "generate_filename"
    => FilenameShape(resp.filename, call.args.title,
                     UpperChars \cup LowerChars \cup DigitSet \cup {"-", "_"}
                        \cup NonAsciiAlnum)
\* a title of 51 characters with spaces in it was cut to 50, its spaces
\* turned into hyphens
C9_Witness ==
    /\ call.name = "generate_filename"
    /\ Len(call.args.title.s) = 51
    /\ Len(TitlePart(resp.filename)) = 50
    /\ \E i \in DOMAIN call.args.title.s : call.args.title.s[i] = " "
    /\ \A i \in DOMAIN TitlePart(resp.filename) : TitlePart(resp.filename)[i] # " "

\* C10 as claimed: a document, once written, stays with exactly the content
\* its save wrote, whatever is called later.
C10_DocumentsNeverChange ==
    [][\A p \in DOMAIN files : p \in DOMAIN files' /\ files'[p] = files[p]]_vars
\* C10 amended: a document, once written, is never removed, and its content
\* changes only when a later save resolves to the same path, that is a save
\* in the same second whose title sanitizes to the same text (last write
\* wins); no other call changes it.
C10_DocumentsChangeOnlyBySamePathSave ==
    [][\A p \in DOMAIN files :
          /\ p \in DOMAIN files'
          /\ files'[p] # files[p]
             => /\ call'.name \in SaveOps
                /\ resp'.kind = "saved"
                /\ p \in {resp'.filepath, resp'.raw}
                /\ StartsWith(Last(p), StrfFile(now'))]_vars
\* a second save went to another path and the first document is still there
C10_Witness ==
    /\ writes = 2
    /\ call.name \in SaveOps
    /\ resp.kind = "saved"
    /\ \E p \in DOMAIN files : p \notin {resp.filepath, resp.raw} /\ EndsWith(Last(p), L_Md)
\* the lines of the session log that was rendered
RenderedLines == logs.files[resp.source].lines
\* the records the renderer has a section for: the JSON objects of type
\* user, assistant or system
Renderable(lines) ==
    SelectSeq(lines, LAMBDA ln : ln.k = "obj" /\ ln.type \in {"user", "assistant", "system"})
\* C11: parse_jsonl_to_markdown returns the sections of the renderable
\* records among the lines that parse as JSON, in the order of the lines;
\* every other line (blank, malformed, of type summary or
\* file-history-snapshot, of an unknown type, no record at all) adds nothing
\* and does not abort the render.
C11_RendersRenderableRecordsInOrder ==
    call.name = "parse_jsonl_to_markdown"
    => /\ resp.kind = "rendered"
       /\ LET recs == Renderable(RenderedLines)
          IN  resp.text = Join(<<"\n">>,
                               FlattenSeqs([i \in DOMAIN recs |-> RecordSections(recs[i])]))

\* the tool_result items of the user records whose content is a list
ToolResults(lines) ==
    LET users == SelectSeq(lines, LAMBDA ln : ln.k = "obj" /\ ln.type = "user"
                                              /\ ln.content.t = "list")
    IN  FlattenSeqs([i \in DOMAIN users |->
                        SelectSeq(users[i].content.items,
                                  LAMBDA item : item.type = "tool_result")])
\* C12: every tool_result item of a user record's content list gives exactly
\* one "Tool Result" section with one fenced block, whether its content is a
\* list of n text items or not a list: the rendering has as many "Tool
\* Result" sections as there are tool_result items.
C12_OneSectionPerToolResult ==
    (call.name = "parse_jsonl_to_markdown" /\ resp.kind = "rendered")
    => Cardinality(Occurrences(resp.text, L_ToolResultOpen))
          = Len(ToolResults(RenderedLines))
\* the session logs below the projects directory: the files named *.jsonl
SessionCandidates ==
    IF logs.exists THEN {p \in DOMAIN logs.files : EndsWith(Last(p), L_Jsonl)} ELSE {}
\* C13: the session log save_current_session archives is one of the *.jsonl
\* files below the projects directory and none of them has a later
\* modification time; the document written holds the rendering of that log.
\* With the projects directory absent or without a *.jsonl file the answer
\* is an error payload and nothing is created under the Archive Root.
C13_LatestSessionIsArchived ==
    [][call'.name = "save_current_session"
       => /\ SessionCandidates = {}
             => (resp'.kind = "error" /\ dirs' = dirs /\ files' = files)
          /\ resp'.kind = "saved"
             => /\ resp'.source \in SessionCandidates
                /\ \A q \in SessionCandidates :
                      logs.files[q].mtime <= logs.files[resp'.source].mtime
                /\ resp'.filepath \in DOMAIN files'
                /\ Contains(files'[resp'.filepath], L_SessionFileOpen \o Last(resp'.source))
                /\ EndsWith(files'[resp'.filepath],
                            parse_jsonl_to_markdown(logs.files[resp'.source].lines))]_vars
\* a session was archived that is later than another candidate and earlier
\* than a file that is no session log
C13_Witness ==
    /\ call.name = "save_current_session"
    /\ resp.kind = "saved"
    /\ \E q \in SessionCandidates : logs.files[q].mtime < logs.files[resp.source].mtime
    /\ \E q \in DOMAIN logs.files \ SessionCandidates :
          logs.files[q].mtime > logs.files[resp.source].mtime
\* C14: cwd_to_project_dir gives what its docstring says: C--dev for the
\* path C, colon, backslash, dev; -home-user-project for /home/user/project;
\* and so a name that begins with a hyphen for a path that begins with a
\* separator.
C14_ProjectDirAsDocumented ==
    call.name = "cwd_to_project_dir"
    => LET cwd == call.args.cwd.s
       IN  /\ cwd = DocWindowsPath => resp.text = <<"C", "-", "-", "d", "e", "v">>
           /\ cwd = DocPosixPath
              => resp.text = <<"-", "h", "o", "m", "e", "-", "u", "s", "e", "r", "-",
                               "p", "r", "o", "j", "e", "c", "t">>
           /\ (cwd # <<>> /\ Head(cwd) \in {"/", "\\"})
              => (resp.text # <<>> /\ Head(resp.text) = "-")
\* C15: whatever the filename (absolute, with ".." in it), the text
\* read_transcript returns is the text of a file under the Archive Root, and
\* a filename that names no file under the root is answered "not found".
C15_ReadStaysInArchive ==
    (/\ call.name = "read_transcript"
     /\ ~call.fault
     /\ call.args.filename.t = "str"
     /\ call.args.filename.s # <<>>)
    => /\ resp.kind = "text"
          => /\ resp.filepath \in DOMAIN files
             /\ resp.text = ReadTranslate(files[resp.filepath])
       /\ (\A p \in DOMAIN files : ~EndsWith(PathString(p), call.args.filename.s))
          => resp.kind = "error"
====
